---- MODULE Spec2Model ----
(***************************************************************************)
(* Model of the echowait queueing server (src/main.py, src/config.py).     *)
(*                                                                         *)
(* The server is one process.  Every request handler is an `async def`     *)
(* coroutine on a single event loop, and the only `await` of a handler is  *)
(* the broadcast that follows its last write, so the body of a handler     *)
(* runs without interleaving: one action per handler.  The durable store   *)
(* is one JSON file that is read whole (load_data) and written whole       *)
(* (save_data); the in-memory working set is the QueueSystem object.       *)
(*                                                                         *)
(* Encodings.  A ticket id "<L>-<n>" is the pair <<L, n>>; Python's None   *)
(* for a ticket is <<>>.  Desk ids "1", "2", ... are the numbers they      *)
(* spell; None / absent for a desk is 0.  A session token (uuid4) is a     *)
(* positive number, an absent cookie is 0.  A dictionary key that is       *)
(* absent and is only read through .get(key, default) is modelled by the   *)
(* default value.                                                          *)
(***************************************************************************)
EXTENDS Integers, Sequences, FiniteSets, TLC

(* ---- bounds ---------------------------------------------------------- *)

\* Tickets issued over all services in one behaviour.
MaxIssued == 2

(* ---- configuration (src/config.py) ----------------------------------- *)

\* Service names a caller may give: "deposit" is configured by ensure_config,
\* "debit" is not (the handlers accept any service name).
Services == {"deposit", "debit"}

\* ensure_config: desks "1" .. str(desk_count) of each configured service.
ConfiguredDesks(s) == IF s = "deposit" THEN {1, 2} ELSE {}

\* Desk ids a caller names for a service; ("debit", 1) is a desk that does not exist.
DeskInputs(s) == IF s = "deposit" THEN {1, 2} ELSE {1}

\* The keys <<service, desk>> of the assigned and serving dictionaries.
DeskKeys == {<<s, d>> : s \in Services, d \in {1, 2}}

NoTicket == <<>>
NoDesk == 0
NoCookie == 0
Absent == -1

\* Cookie values a caller presents: none, a token of some session, or a token
\* no session carries.
Cookies == 0..(Cardinality(ConfiguredDesks("deposit")) + 1)

VARIABLES
    file,            \* queue_data.json: [desks, tickets, sessions]
    queues,          \* QueueSystem.queues
    ticket_counter,  \* QueueSystem.ticket_counter (Absent: key not present)
    assigned,        \* QueueSystem.assigned, keyed by <<service, desk>>
    serving,         \* QueueSystem.serving, keyed by <<service, desk>>
    last,            \* the last request handled: its response and its broadcast
    issuedCount      \* history: IssueTicket calls ever performed, per service

vars == <<file, queues, ticket_counter, assigned, serving, last, issuedCount>>
memory == <<queues, ticket_counter, assigned, serving>>

(* ---- pure helpers ---------------------------------------------------- *)

\* service[:1].upper()
FirstLetterUpper(s) ==
    CASE s = "deposit" -> "D"
      [] s = "debit" -> "D"
      [] OTHER -> "?"

\* f"{service[:1].upper()}-{n}"
FormatTicket(s, n) == <<FirstLetterUpper(s), n>>

\* int(id.split("-")[1])
SeqNumber(id) == id[2]

TicketIds == {FormatTicket(s, n) : s \in Services, n \in 1..MaxIssued}

Max(S) == CHOOSE m \in S : \A x \in S : x <= m

RECURSIVE SelectIds(_, _)
\* [t["id"] for t in tickets if t["status"] == st]
SelectIds(tickets, st) ==
    IF tickets = <<>> THEN <<>>
    ELSE LET rest == SelectIds(Tail(tickets), st)
         IN IF Head(tickets).status = st THEN <<Head(tickets).id>> \o rest ELSE rest

WaitingIds(f, s) == SelectIds(f.tickets[s], "waiting")

InSeq(x, q) == \E i \in 1..Len(q) : q[i] = x

\* for t in tickets: if t["id"] == id: t["status"] = st
SetStatus(tickets, id, st) ==
    [i \in 1..Len(tickets) |->
        IF tickets[i].id = id THEN [tickets[i] EXCEPT !.status = st] ELSE tickets[i]]

\* for t in tickets: if t["id"] == id: t["status"] = st; t["desk"] = dk
SetStatusDesk(tickets, id, st, dk) ==
    [i \in 1..Len(tickets) |->
        IF tickets[i].id = id THEN [tickets[i] EXCEPT !.status = st, !.desk = dk]
        ELSE tickets[i]]

(* ---- durable store --------------------------------------------------- *)

\* Mutant: start-up leaves an assigned ticket as it is.
NormalizeStatus_Keep(st) == st

\* if ticket.get("status") == "assigned": ticket["status"] = "waiting"
NormalizeStatus(st) == IF st = "assigned" THEN "waiting" ELSE st

\* init_data_file: the number of tickets it finds assigned and reports
normalized_count(f) ==
    Cardinality({<<s, i>> \in Services \X (1..MaxIssued) :
                    i <= Len(f.tickets[s]) /\ f.tickets[s][i].status = "assigned"})

\* init_data_file: every ticket persisted as assigned becomes waiting.
init_data_file(f) ==
    [f EXCEPT !.tickets =
        [s \in Services |->
            [i \in 1..Len(f.tickets[s]) |->
                [f.tickets[s][i] EXCEPT !.status = NormalizeStatus(@)]]]]

(* ---- QueueSystem ----------------------------------------------------- *)

\* Mutant: every ticket of the store is queued again, whatever its status.
RestoreQueue_All(tickets) == [i \in 1..Len(tickets) |-> tickets[i].id]

\* restore_state: queues[service] = the ids of the waiting tickets, in store order
RestoreQueue(tickets) == SelectIds(tickets, "waiting")

\* Mutant: the counter is restored to the number of waiting tickets.
RestoreCounter_Waiting(tickets) ==
    IF tickets = <<>> THEN Absent ELSE Len(SelectIds(tickets, "waiting"))

\* restore_state: ticket_counter[service] = the largest sequence number, if any
RestoreCounter(tickets) ==
    IF tickets = <<>> THEN Absent
    ELSE Max({SeqNumber(tickets[i].id) : i \in 1..Len(tickets)})

\* next((t for t in tickets if t["id"] == id), None) and its status ("" for None)
StatusOf(tickets, id) ==
    IF \E i \in 1..Len(tickets) : tickets[i].id = id
    THEN tickets[CHOOSE i \in 1..Len(tickets) :
                    /\ tickets[i].id = id
                    /\ \A j \in 1..(i - 1) : tickets[j].id # id].status
    ELSE ""

\* restore_state: assigned[(service, desk)] = current_ticket where one is stored
RestoreAssigned(f) ==
    [k \in DeskKeys |->
        IF k[2] \in DOMAIN f.desks[k[1]]
        THEN f.desks[k[1]][k[2]].current_ticket
        ELSE NoTicket]

\* restore_state: serving[(service, desk)] = current_ticket if that ticket is serving
RestoreServing(f) ==
    [k \in DeskKeys |->
        IF /\ k[2] \in DOMAIN f.desks[k[1]]
           /\ f.desks[k[1]][k[2]].current_ticket # NoTicket
           /\ StatusOf(f.tickets[k[1]], f.desks[k[1]][k[2]].current_ticket) = "serving"
        THEN f.desks[k[1]][k[2]].current_ticket
        ELSE NoTicket]

\* add_ticket: append the id unless the queue already holds it
add_ticket(q, id) == IF InSeq(id, q) THEN q ELSE Append(q, id)

RECURSIVE AddAll(_, _)
\* lifespan: add_ticket for every waiting ticket of the store, in store order
AddAll(q, ids) == IF ids = <<>> THEN q ELSE AddAll(add_ticket(q, Head(ids)), Tail(ids))

\* generate_ticket: the counter before the increment (0 when the key is new)
CounterOrZero(c) == IF c = Absent THEN 0 ELSE c

\* Mutant: next_ticket takes the newest ticket (pop() instead of pop(0)).
QueueFront_Newest(q) == q[Len(q)]

\* the ticket next_ticket returns: queues[service][0]
QueueFront(q) == Head(q)

\* Mutant: next_ticket reads the front ticket without removing it.
QueueRest_NoPop(q) == q

\* what next_ticket leaves in queues[service]: the list after pop(0)
QueueRest(q) == Tail(q)

\* Mutant: the length is read before the ticket is appended.
queue_length_BeforeAppend(q) == Len(q) - 1

\* queue_length
queue_length(q) == Len(q)

\* set_assigned's write: d["current_ticket"] = ticket on the desk, if it exists
set_assigned_file(f, s, d, t) ==
    [f EXCEPT !.desks[s] =
        [k \in DOMAIN f.desks[s] |->
            IF k = d THEN [f.desks[s][k] EXCEPT !.current_ticket = t]
            ELSE f.desks[s][k]]]

\* set_serving's write: ticket -> serving; desk -> current_ticket, occupied
set_serving_file(f, s, d, t) ==
    [f EXCEPT !.tickets[s] = SetStatus(f.tickets[s], t, "serving"),
              !.desks[s] =
                  [k \in DOMAIN f.desks[s] |->
                      IF k = d THEN [status |-> "occupied", current_ticket |-> t]
                      ELSE f.desks[s][k]]]

\* save_data called several times in one handler: the file holds the last write
LastWrite(writes) == writes[Len(writes)]

(* ---- initial state --------------------------------------------------- *)

NoEvent == [type |-> "none"]

\* What a request leaves to observe: the handler, the service and desk it was
\* called with, the status, ticket and cookie it returns, the number of tickets
\* a start-up reports as normalized, and the event it broadcasts (the HH:MM
\* timestamp of an event is left out).
Response(op, s, d, status) ==
    [op |-> op, service |-> s, desk |-> d, status |-> status, rticket |-> NoTicket,
     rtoken |-> NoCookie, normalized |-> 0, event |-> NoEvent]

\* The store as ensure_config leaves it and server start normalizes it; the
\* QueueSystem as restore_state builds it from that store.
Init ==
    /\ file = [desks |-> [s \in Services |->
                            [d \in ConfiguredDesks(s) |->
                                [status |-> "empty", current_ticket |-> NoTicket]]],
               tickets |-> [s \in Services |-> <<>>],
               sessions |-> <<>>]
    /\ queues = [s \in Services |-> <<>>]
    /\ ticket_counter = [s \in Services |-> Absent]
    /\ assigned = [k \in DeskKeys |-> NoTicket]
    /\ serving = [k \in DeskKeys |-> NoTicket]
    /\ last = Response("start", "", NoDesk, "ok")
    /\ issuedCount = [s \in Services |-> 0]

(* ---- GET /ticket ----------------------------------------------------- *)

TotalIssued == Len(file.tickets["deposit"]) + Len(file.tickets["debit"])

\* get_ticket -> QueueSystem.generate_ticket, then the "issued" broadcast
IssueTicket(s) ==
    /\ TotalIssued < MaxIssued
    /\ LET q0 == IF ticket_counter[s] = Absent THEN <<>> ELSE queues[s]
           n == CounterOrZero(ticket_counter[s]) + 1
           ticket == FormatTicket(s, n)
           q1 == Append(q0, ticket)
           f1 == [file EXCEPT !.tickets[s] =
                     Append(@, [id |-> ticket, status |-> "waiting", desk |-> NoDesk])]
       IN /\ ticket_counter' = [ticket_counter EXCEPT ![s] = n]
          /\ queues' = [queues EXCEPT ![s] = q1]
          /\ file' = f1
          /\ last' = [Response("ticket", s, NoDesk, "ok") EXCEPT
                        !.rticket = ticket,
                        !.event = [type |-> "issued", service |-> s, ticket |-> ticket,
                                   queue_length |-> queue_length(q1)]]
          /\ issuedCount' = [issuedCount EXCEPT ![s] = @ + 1]
    /\ UNCHANGED <<assigned, serving>>

(* ---- GET /next ------------------------------------------------------- *)

\* Mutant: the guard fires on any outstanding assignment of the service.
BusyGuard_AnyAssigned(waiting, asg, s) ==
    /\ Len(waiting) = 1
    /\ \E k \in DOMAIN asg : k[1] = s /\ asg[k] # NoTicket

\* Case A of next_ticket: exactly one ticket is waiting in the store and that
\* very ticket sits in an assigned slot of the service.
BusyGuard(waiting, asg, s) ==
    /\ Len(waiting) = 1
    /\ \E k \in DOMAIN asg : k[1] = s /\ asg[k] = waiting[1]

CallNext(s, d) ==
    LET data == file
        waiting == WaitingIds(data, s)
    IN IF BusyGuard(waiting, assigned, s) THEN
           /\ last' = [Response("next", s, d, "busy") EXCEPT !.rticket = waiting[1]]
           /\ UNCHANGED <<file, memory, issuedCount>>
       ELSE IF queues[s] = <<>> THEN
           /\ last' = [Response("next", s, d, "empty") EXCEPT
                          !.event = [type |-> "empty", service |-> s]]
           /\ UNCHANGED <<file, memory, issuedCount>>
       ELSE
           LET ticket == QueueFront(queues[s])
               \* set_assigned loads, sets the desk's current_ticket and saves
               w1 == set_assigned_file(file, s, d, ticket)
               \* the handler then saves the snapshot it loaded on entry
               w2 == [data EXCEPT !.tickets[s] = SetStatus(@, ticket, "assigned")]
           IN /\ queues' = [queues EXCEPT ![s] = QueueRest(@)]
              /\ assigned' = [assigned EXCEPT ![<<s, d>>] = ticket]
              /\ file' = LastWrite(<<w1, w2>>)
              /\ last' = [Response("next", s, d, "ok") EXCEPT
                             !.rticket = ticket,
                             !.event = [type |-> "called", service |-> s,
                                        ticket |-> ticket, desk |-> d]]
              /\ UNCHANGED <<ticket_counter, serving, issuedCount>>

(* ---- GET /clerk/{service}/{desk_id} ---------------------------------- *)

\* Mutant: the occupied check is skipped, every call claims the desk.
DeskOccupied_Never(desk) == FALSE

\* desk["status"] == "occupied"
DeskOccupied(desk) == desk.status = "occupied"

\* the first session of the store bound to (service, desk), or none
OwnerSession(sessions, s, d) ==
    IF \E i \in 1..Len(sessions) : sessions[i].service = s /\ sessions[i].desk_id = d
    THEN sessions[CHOOSE i \in 1..Len(sessions) :
                     /\ sessions[i].service = s /\ sessions[i].desk_id = d
                     /\ \A j \in 1..(i - 1) :
                            ~(sessions[j].service = s /\ sessions[j].desk_id = d)].sid
    ELSE NoCookie

\* Mutant: any caller of an owned desk is taken for its owner.
OwnerMatches_AnyCaller(owner, cookie) == owner # NoCookie

\* owner_session and owner_session == session_id
OwnerMatches(owner, cookie) == owner # NoCookie /\ owner = cookie

\* str(uuid.uuid4()): a token no session of the store carries
NewSession(sessions) == Len(sessions) + 1

ClaimOrResume(s, d, cookie) ==
    LET data == file
    IN IF d \notin DOMAIN data.desks[s] THEN
           /\ last' = Response("clerk", s, d, "notfound")
           /\ UNCHANGED <<file, memory, issuedCount>>
       ELSE IF DeskOccupied(data.desks[s][d]) THEN
           /\ last' = IF OwnerMatches(OwnerSession(data.sessions, s, d), cookie)
                      THEN Response("clerk", s, d, "resumed")
                      ELSE Response("clerk", s, d, "denied")
           /\ UNCHANGED <<file, memory, issuedCount>>
       ELSE
           LET new_session == NewSession(data.sessions)
           IN /\ file' = [data EXCEPT
                            !.desks[s][d].status = "occupied",
                            !.sessions = Append(@, [sid |-> new_session, service |-> s,
                                                    desk_id |-> d])]
              /\ last' = [Response("clerk", s, d, "fresh") EXCEPT !.rtoken = new_session]
              /\ UNCHANGED <<memory, issuedCount>>

(* ---- GET /confirm ---------------------------------------------------- *)

\* Mutant: only an empty assigned slot is rejected.
ConfirmMismatch_EmptyOnly(slot, ticket) == slot = NoTicket

\* assigned != ticket
ConfirmMismatch(slot, ticket) == slot # ticket

Confirm(s, d, t) ==
    IF ConfirmMismatch(assigned[<<s, d>>], t) THEN
           /\ last' = Response("confirm", s, d, "error")
           /\ UNCHANGED <<file, memory, issuedCount>>
       ELSE
           LET w1 == set_serving_file(file, s, d, t)
               w2 == set_assigned_file(w1, s, d, NoTicket)
               data == w2
               w3 == [data EXCEPT
                        !.tickets[s] = SetStatusDesk(@, t, "serving", d),
                        !.desks[s] =
                            [k \in DOMAIN data.desks[s] |->
                                IF k = d
                                THEN [status |-> "occupied", current_ticket |-> t]
                                ELSE data.desks[s][k]]]
           IN /\ serving' = [serving EXCEPT ![<<s, d>>] = t]
              /\ assigned' = [assigned EXCEPT ![<<s, d>>] = NoTicket]
              /\ file' = LastWrite(<<w1, w2, w3>>)
              /\ last' = [Response("confirm", s, d, "ok") EXCEPT
                             !.rticket = t,
                             !.event = [type |-> "serving", service |-> s,
                                        ticket |-> t, desk |-> d]]
              /\ UNCHANGED <<queues, ticket_counter, issuedCount>>

(* ---- GET /done ------------------------------------------------------- *)

\* current_serving != ticket
DoneMismatch(slot, ticket) == slot # ticket

Complete(s, d, t) ==
    IF DoneMismatch(serving[<<s, d>>], t) THEN
           /\ last' = Response("done", s, d, "error")
           /\ UNCHANGED <<file, memory, issuedCount>>
       ELSE
           LET w1 == set_serving_file(file, s, d, NoTicket)
               data == w1
               w2 == [data EXCEPT
                        !.tickets[s] = SetStatusDesk(@, t, "done", NoDesk),
                        !.desks[s] =
                            [k \in DOMAIN data.desks[s] |->
                                IF k = d
                                THEN [status |-> "occupied", current_ticket |-> NoTicket]
                                ELSE data.desks[s][k]]]
           IN /\ serving' = [serving EXCEPT ![<<s, d>>] = NoTicket]
              /\ file' = LastWrite(<<w1, w2>>)
              /\ last' = [Response("done", s, d, "ok") EXCEPT
                             !.rticket = t,
                             !.event = [type |-> "done", service |-> s,
                                        ticket |-> t, desk |-> d]]
              /\ UNCHANGED <<queues, ticket_counter, assigned, issuedCount>>

(* ---- process restart ------------------------------------------------- *)

\* A new process: init_data_file at import, QueueSystem() -> restore_state,
\* then lifespan: init_data_file again and add_ticket for each waiting ticket.
Restart ==
    LET f1 == init_data_file(file)
        q1 == [s \in Services |-> RestoreQueue(f1.tickets[s])]
        f2 == init_data_file(f1)
        q2 == [s \in Services |-> AddAll(q1[s], WaitingIds(f2, s))]
    IN /\ file' = f2
       /\ queues' = q2
       /\ ticket_counter' = [s \in Services |-> RestoreCounter(f1.tickets[s])]
       /\ assigned' = RestoreAssigned(f1)
       /\ serving' = RestoreServing(f1)
       /\ last' = [Response("restart", "", NoDesk, "ok") EXCEPT
                     !.normalized = normalized_count(file)]
       /\ UNCHANGED issuedCount

(* ---- specification --------------------------------------------------- *)

Next ==
    \/ \E s \in Services : IssueTicket(s)
    \/ \E s \in Services : \E d \in DeskInputs(s) : CallNext(s, d)
    \/ \E s \in Services : \E d \in DeskInputs(s), c \in Cookies : ClaimOrResume(s, d, c)
    \/ \E s \in Services : \E d \in DeskInputs(s), t \in TicketIds : Confirm(s, d, t)
    \/ \E s \in Services : \E d \in DeskInputs(s), t \in TicketIds : Complete(s, d, t)
    \/ Restart

Spec == Init /\ [][Next]_vars

(* ---- properties ------------------------------------------------------ *)

\* The stored record of desk k = <<service, desk>>, when the desk is configured.
Configured(k) == k[2] \in DOMAIN file.desks[k[1]]

\* Desk k holds ticket t: in its assigned slot, in its serving slot, or as its
\* current_ticket in the store.
Holds(k, t) ==
    \/ assigned[k] = t
    \/ serving[k] = t
    \/ (Configured(k) /\ file.desks[k[1]][k[2]].current_ticket = t)

\* The positions of the store's tickets of service s.
Positions(s) == 1..Len(file.tickets[s])

\* The stored status of ticket t of service s ("" when the store has no such ticket).
StoredStatus(s, t) ==
    IF \E i \in Positions(s) : file.tickets[s][i].id = t
    THEN file.tickets[s][CHOOSE i \in Positions(s) : file.tickets[s][i].id = t].status
    ELSE ""

\* The ids of the tickets of s stored as waiting, as a set.
WaitingSet(s) == {file.tickets[s][i].id : i \in {j \in Positions(s) :
                                                  file.tickets[s][j].status = "waiting"}}

\* This step is a CallNext on service s, from one of its desks.
IsCallNext(s) ==
    /\ last'.op = "next" /\ last'.service = s
    /\ \E d \in DeskInputs(s) : CallNext(s, d)

(* C1 *)
C1_NoSharedTicket ==
    \A k1, k2 \in DeskKeys :
        (k1[1] = k2[1] /\ k1 # k2) =>
            \A t \in TicketIds : ~(Holds(k1, t) /\ Holds(k2, t))

C1_CallNextFresh ==
    (last'.op = "next" /\ last'.status = "ok") =>
        /\ last'.rticket \in WaitingSet(last'.service)
        /\ \A k \in DeskKeys : k[1] = last'.service => ~Holds(k, last'.rticket)

\* C1: Exclusivity.  In every reachable state no two distinct desks of a
\* service hold the same ticket (assigned slot, serving slot or stored
\* current_ticket), and a CallNext that answers ok returns a ticket that was
\* waiting and that no desk of the service held, so two CallNext calls never
\* return the same ticket while the first still holds it.
C1_Exclusivity == []C1_NoSharedTicket /\ [][C1_CallNextFresh]_vars

\* C1 witness: both desks of deposit hold a ticket handed out by CallNext.
C1_Witness ==
    /\ last.op = "next" /\ last.status = "ok"
    /\ assigned[<<"deposit", 1>>] # NoTicket
    /\ assigned[<<"deposit", 2>>] # NoTicket

(* C2 *)
C2_Oldest(s) ==
    IsCallNext(s) =>
        IF WaitingSet(s) = {}
        THEN last'.status = "empty" /\ UNCHANGED <<file, memory>>
        ELSE /\ last'.status = "ok"
             /\ last'.rticket \in WaitingSet(s)
             /\ \A t \in WaitingSet(s) : SeqNumber(last'.rticket) <= SeqNumber(t)
             /\ WaitingSet(s)' = WaitingSet(s) \ {last'.rticket}

C2_OnlyCallNextTakes(s) ==
    \/ file'.tickets[s] = file.tickets[s]
    \/ WaitingSet(s)' = WaitingSet(s)
    \/ IsCallNext(s) \/ IssueTicket(s) \/ Restart

\* C2: FIFO law.  A CallNext on service s answers ok with the waiting ticket of
\* s that has the smallest sequence number (the oldest issued) and takes exactly
\* that ticket out of the waiting tickets, or answers empty when none is
\* waiting; between two CallNext calls only IssueTicket on s or a restart
\* changes the waiting tickets of s.  Hence a run of CallNext calls with no
\* IssueTicket in between returns the waiting tickets in issuance order and
\* then empty.
C2_FIFO == [][\A s \in Services : C2_Oldest(s) /\ C2_OnlyCallNextTakes(s)]_vars

\* C2 witness: the second ticket of a service is handed out after the first.
C2_Witness ==
    /\ last.op = "next" /\ last.status = "ok"
    /\ SeqNumber(last.rticket) = 2
    /\ StoredStatus(last.service, <<"D", 1>>) = "assigned"

(* C3 *)
\* C3: Ticket-id allocation.  The k-th IssueTicket ever performed on a service
\* returns <first letter uppercased>-k (both services of the model begin with
\* "d"), whether or not the process restarted in between; the store's tickets
\* of a service carry the sequence numbers 1..N in order, each once.
C3_TicketIds ==
    /\ \A s \in Services :
          /\ Len(file.tickets[s]) = issuedCount[s]
          /\ \A i \in Positions(s) : file.tickets[s][i].id = <<"D", i>>
    /\ last.op = "ticket" => last.rticket = <<"D", issuedCount[last.service]>>

\* C3 witness: a second ticket is issued after a restart (the first ticket is
\* serving and sits in the assigned slot too, which only restore_state does).
C3_Witness ==
    /\ last.op = "ticket" /\ last.service = "deposit"
    /\ last.rticket = <<"D", 2>>
    /\ serving[<<"deposit", 1>>] = <<"D", 1>>
    /\ assigned[<<"deposit", 1>>] = <<"D", 1>>

(* C4 *)
C4_Rejected == last'.status = "error" /\ last'.event = NoEvent /\ UNCHANGED <<file, memory>>

\* A Confirm step on (s, d) records s and d in last', so the step's service and
\* desk are read from there and only the ticket is quantified.
C4_Confirm ==
    last'.op = "confirm" =>
        \A t \in TicketIds :
            (/\ assigned[<<last'.service, last'.desk>>] # t
             /\ Confirm(last'.service, last'.desk, t)) => C4_Rejected

C4_Complete ==
    last'.op = "done" =>
        \A t \in TicketIds :
            (/\ serving[<<last'.service, last'.desk>>] # t
             /\ Complete(last'.service, last'.desk, t)) => C4_Rejected

\* C4: Mismatch rejection.  Confirm(s,d,t) with t different from desk d's
\* assigned slot, and Complete(s,d,t) with t different from desk d's serving
\* slot (the empty slot included), answer error, broadcast nothing and leave
\* the store and the in-memory queues, counters and slots unchanged.
C4_MismatchRejected ==
    [][C4_Confirm /\ C4_Complete]_vars

\* C4 witness: a Confirm is rejected at a desk whose assigned slot holds a ticket.
C4_Witness ==
    /\ last.op = "confirm" /\ last.status = "error"
    /\ assigned[<<last.service, last.desk>>] # NoTicket

(* C5 *)
Sorted(q) == \A i, j \in 1..Len(q) : i < j => SeqNumber(q[i]) < SeqNumber(q[j])

C5_Restarted ==
    last'.op = "restart" =>
        \A s \in Services :
            /\ Len(file'.tickets[s]) = Len(file.tickets[s])
            /\ \A i \in Positions(s) :
                  /\ file'.tickets[s][i].id = file.tickets[s][i].id
                  /\ file'.tickets[s][i].status # "assigned"
                  /\ file.tickets[s][i].status = "assigned"
                        => file'.tickets[s][i].status = "waiting"
                  /\ file.tickets[s][i].status # "assigned"
                        => file'.tickets[s][i].status = file.tickets[s][i].status
            /\ {queues'[s][i] : i \in 1..Len(queues'[s])} = WaitingSet(s)'
            /\ Len(queues'[s]) = Cardinality(WaitingSet(s)')
            /\ Sorted(queues'[s])

\* C5: Restart recovery.  A restart leaves no ticket assigned in the store:
\* each ticket that was assigned is waiting, every other ticket keeps its
\* status; and the FIFO of each service holds exactly the store's waiting
\* tickets of the service, each once, in issuance order, so a re-queued ticket
\* comes before every ticket issued after it.
C5_RestartRecovery == [][C5_Restarted]_vars

\* C5 witness: a restart that found an assigned ticket and re-queued it in
\* front of a ticket issued later.
C5_Witness ==
    /\ last.op = "restart" /\ last.normalized > 0
    /\ Len(queues["deposit"]) = 2

(* C6 *)
\* The positions of the session records bound to desk d of service s.
BoundSessions(s, d) ==
    {i \in 1..Len(file.sessions) :
        file.sessions[i].service = s /\ file.sessions[i].desk_id = d}

\* Cookie c is the token of a session bound to desk d of service s.
IsOwner(s, d, c) ==
    c # NoCookie /\ \E i \in BoundSessions(s, d) : file.sessions[i].sid = c

\* A ClaimOrResume step on (s, d) records s and d in last', so the step's
\* service and desk are read from there and only the cookie is quantified.
C6_OnOccupied(s, d, c) ==
    (/\ d \in ConfiguredDesks(s)
     /\ file.desks[s][d].status = "occupied"
     /\ ClaimOrResume(s, d, c)) =>
        /\ last'.status = (IF IsOwner(s, d, c) THEN "resumed" ELSE "denied")
        /\ last'.rtoken = NoCookie
        /\ UNCHANGED <<file, memory>>

\* C6: Session exclusivity.  ClaimOrResume on an occupied desk answers resumed
\* when the caller's token is the one bound to the desk and denied otherwise
\* (no token, another token); either way it returns no new token and leaves
\* the store (desks, sessions, tickets) and the memory unchanged.
C6_SessionExclusivity ==
    [][last'.op = "clerk" =>
          \A c \in Cookies : C6_OnOccupied(last'.service, last'.desk, c)]_vars

\* C6 witness: a caller is denied at a desk that a session owns.
C6_Witness ==
    /\ last.op = "clerk" /\ last.status = "denied"
    /\ BoundSessions(last.service, last.desk) # {}

(* C7 *)
C7_AtMostOne ==
    /\ \A s \in Services : \A d \in DeskInputs(s) : Cardinality(BoundSessions(s, d)) <= 1
    /\ \A i, j \in 1..Len(file.sessions) :
          file.sessions[i].sid = file.sessions[j].sid => i = j

C7_MintOnlyOnEmpty ==
    (file'.sessions # file.sessions) =>
        /\ last'.op = "clerk" /\ last'.status = "fresh"
        /\ last'.desk \in ConfiguredDesks(last'.service)
        /\ file.desks[last'.service][last'.desk].status = "empty"
        /\ file'.desks[last'.service][last'.desk].status = "occupied"
        /\ file'.sessions = Append(file.sessions,
                                   [sid |-> last'.rtoken, service |-> last'.service,
                                    desk_id |-> last'.desk])

\* C7: At most one session per desk.  In every reachable state at most one
\* session record is bound to a desk and no two records share a token; the
\* session records change only by a ClaimOrResume that finds the desk empty,
\* marks it occupied and appends one record for it.
C7_OneSessionPerDesk == []C7_AtMostOne /\ [][C7_MintOnlyOnEmpty]_vars

\* C7 witness: both desks are owned and a further claim has been denied.
C7_Witness ==
    /\ BoundSessions("deposit", 1) # {} /\ BoundSessions("deposit", 2) # {}
    /\ last.op = "clerk" /\ last.status = "denied"

(* C8 *)
\* C8: Occupied implies owned.  Every desk whose stored status is occupied has
\* exactly one session bound to it.  (Violated: Confirm and Complete mark the
\* desk occupied whether or not any session owns it.)
C8_OccupiedImpliesOwned ==
    \A s \in Services : \A d \in ConfiguredDesks(s) :
        file.desks[s][d].status = "occupied" => Cardinality(BoundSessions(s, d)) = 1

(* C9 *)
\* C9: Queue/store agreement.  In every reachable state the FIFO of each
\* service is the sequence of the ids of the service's tickets stored as
\* waiting, in store order, so queue_length is the number of waiting tickets.
C9_QueueAgreesWithStore ==
    \A s \in Services :
        /\ Len(queues[s]) = Cardinality({i \in Positions(s) :
                                            file.tickets[s][i].status = "waiting"})
        /\ \A n \in 1..Len(queues[s]) :
              \E i \in Positions(s) :
                  /\ file.tickets[s][i].id = queues[s][n]
                  /\ file.tickets[s][i].status = "waiting"
                  /\ Cardinality({j \in 1..i : file.tickets[s][j].status = "waiting"}) = n
        /\ queue_length(queues[s]) = Cardinality(WaitingSet(s))

\* C9 witness: after a restart a ticket is serving, one is waiting and queued.
C9_Witness ==
    /\ last.op = "restart"
    /\ \E k \in DeskKeys : serving[k] # NoTicket
    /\ \E s \in Services : Len(queues[s]) = 1

(* C10 *)
\* Some desk of s has, in its assigned slot, a ticket the store holds as assigned.
Outstanding(s) ==
    \E k \in DeskKeys :
        k[1] = s /\ assigned[k] # NoTicket /\ StoredStatus(s, assigned[k]) = "assigned"

\* C10 as claimed: CallNext answers busy and changes nothing whenever exactly
\* one ticket of s is waiting and some desk of s holds an outstanding assigned
\* ticket; with more than one waiting ticket it never answers busy.
C10_BusyWhenOutstanding ==
    [][\A s \in Services :
          /\ (IsCallNext(s) /\ Cardinality(WaitingSet(s)) = 1 /\ Outstanding(s)) =>
                (last'.status = "busy" /\ UNCHANGED <<file, memory>>)
          /\ (IsCallNext(s) /\ Cardinality(WaitingSet(s)) > 1) =>
                last'.status # "busy"]_vars

\* The single waiting ticket of s is itself in an assigned slot of a desk of s.
WaitingTicketAssigned(s) ==
    /\ Cardinality(WaitingSet(s)) = 1
    /\ \E k \in DeskKeys : k[1] = s /\ assigned[k] \in WaitingSet(s)

\* C10 amended: CallNext answers busy, changing nothing, exactly when the one
\* waiting ticket of s is itself in an assigned slot of a desk of s; an
\* outstanding assignment of another ticket does not make it busy: the waiting
\* ticket is handed out.  With more than one waiting ticket it never answers
\* busy.
C10_BusyOnlyForSameTicket ==
    [][\A s \in Services :
          IsCallNext(s) =>
              /\ (last'.status = "busy") <=> WaitingTicketAssigned(s)
              /\ last'.status = "busy" =>
                    (last'.event = NoEvent /\ UNCHANGED <<file, memory>>)
              /\ (Cardinality(WaitingSet(s)) = 1 /\ Outstanding(s)
                    /\ ~WaitingTicketAssigned(s)) =>
                    (last'.status = "ok" /\ last'.rticket \in WaitingSet(s))
              /\ Cardinality(WaitingSet(s)) > 1 => last'.status # "busy"]_vars

\* C10 witness: CallNext handed out the only waiting ticket while another desk
\* of the service held an outstanding assigned ticket.
C10_Witness ==
    /\ last.op = "next" /\ last.status = "ok"
    /\ WaitingSet(last.service) = {}
    /\ \E k \in DeskKeys :
          /\ k[1] = last.service /\ k[2] # last.desk
          /\ assigned[k] # NoTicket
          /\ StoredStatus(last.service, assigned[k]) = "assigned"
          /\ SeqNumber(assigned[k]) < SeqNumber(last.rticket)

(* C11 *)
D1 == <<"D", 1>>
D2 == <<"D", 2>>

\* The state of service deposit and its two desks: the stored tickets, the
\* stored desks, the FIFO, the counter and the assigned and serving slots of
\* desks 1 and 2; nothing of service debit, no session.
Stage(tickets, desk1, desk2, fifo, counter, asg1, asg2, srv1, srv2) ==
    /\ file.tickets = [deposit |-> tickets, debit |-> <<>>]
    /\ file.desks["deposit"] = <<desk1, desk2>>
    /\ file.sessions = <<>>
    /\ queues = [deposit |-> fifo, debit |-> <<>>]
    /\ ticket_counter = [deposit |-> counter, debit |-> Absent]
    /\ assigned = [k \in DeskKeys |->
                     IF k = <<"deposit", 1>> THEN asg1
                     ELSE IF k = <<"deposit", 2>> THEN asg2 ELSE NoTicket]
    /\ serving = [k \in DeskKeys |->
                    IF k = <<"deposit", 1>> THEN srv1
                    ELSE IF k = <<"deposit", 2>> THEN srv2 ELSE NoTicket]

Tk(id, st, dk) == [id |-> id, status |-> st, desk |-> dk]
EmptyDesk == [status |-> "empty", current_ticket |-> NoTicket]

Stage0 == Stage(<<>>, EmptyDesk, EmptyDesk, <<>>, Absent,
                NoTicket, NoTicket, NoTicket, NoTicket)
Stage1 == Stage(<<Tk(D1, "waiting", NoDesk)>>, EmptyDesk, EmptyDesk, <<D1>>, 1,
                NoTicket, NoTicket, NoTicket, NoTicket)
Stage2 == Stage(<<Tk(D1, "waiting", NoDesk), Tk(D2, "waiting", NoDesk)>>,
                EmptyDesk, EmptyDesk, <<D1, D2>>, 2,
                NoTicket, NoTicket, NoTicket, NoTicket)
Stage3 == Stage(<<Tk(D1, "assigned", NoDesk), Tk(D2, "waiting", NoDesk)>>,
                EmptyDesk, EmptyDesk, <<D2>>, 2,
                D1, NoTicket, NoTicket, NoTicket)
Stage4 == Stage(<<Tk(D1, "assigned", NoDesk), Tk(D2, "assigned", NoDesk)>>,
                EmptyDesk, EmptyDesk, <<>>, 2,
                D1, D2, NoTicket, NoTicket)
Stage5 == Stage(<<Tk(D1, "serving", 1), Tk(D2, "assigned", NoDesk)>>,
                [status |-> "occupied", current_ticket |-> D1], EmptyDesk, <<>>, 2,
                NoTicket, D2, D1, NoTicket)
Stage6 == Stage(<<Tk(D1, "done", NoDesk), Tk(D2, "assigned", NoDesk)>>,
                [status |-> "occupied", current_ticket |-> NoTicket], EmptyDesk, <<>>, 2,
                NoTicket, D2, NoTicket, NoTicket)

\* The response of the step: its status and the ticket it returns.
Answers(status, ticket) == last'.status = status /\ last'.rticket = ticket

C11_Steps ==
    /\ (Stage0 /\ IssueTicket("deposit")) => (Answers("ok", D1) /\ Stage1')
    /\ (Stage1 /\ IssueTicket("deposit")) => (Answers("ok", D2) /\ Stage2')
    /\ (Stage2 /\ CallNext("deposit", 1)) =>
          (Answers("ok", D1) /\ last'.desk = 1 /\ Stage3')
    /\ (Stage3 /\ CallNext("deposit", 2)) =>
          (Answers("ok", D2) /\ last'.desk = 2 /\ Stage4')
    /\ (Stage4 /\ Confirm("deposit", 1, D1)) => (Answers("ok", D1) /\ Stage5')
    /\ (Stage5 /\ Complete("deposit", 1, D1)) => (Answers("ok", D1) /\ Stage6')
    /\ (Stage6 /\ Complete("deposit", 1, D2)) => (Answers("error", NoTicket) /\ Stage6')

\* C11: Reference scenario.  The initial state is the empty store with desks 1
\* and 2 of deposit; from it IssueTicket, IssueTicket, CallNext(deposit,1),
\* CallNext(deposit,2), Confirm(deposit,1,D-1), Complete(deposit,1,D-1),
\* Complete(deposit,1,D-2) answer D-1, D-2, {ok,D-1,1}, {ok,D-2,2}, ok, ok,
\* error, each step leading from one stage of the scenario to the next; the
\* second CallNext answers ok although D-1 is assigned and D-2 alone is waiting.
C11_Scenario == Stage0 /\ [][C11_Steps]_vars

\* C11 witness: the scenario has run to its end, the last Complete was rejected.
C11_Witness ==
    /\ Stage6
    /\ last.op = "done" /\ last.status = "error"
    /\ last.service = "deposit" /\ last.desk = 1

(* C12 *)
\* The place of a status on the path Waiting, Assigned, Serving, Done.
Rank(status) ==
    CASE status = "waiting" -> 0
      [] status = "assigned" -> 1
      [] status = "serving" -> 2
      [] status = "done" -> 3

\* C12: Monotonic ticket status.  Every step leaves each stored ticket at its
\* status or moves it forward along Waiting, Assigned, Serving, Done; the only
\* step back is the start-up normalization of Assigned to Waiting.  So a ticket
\* that is Done stays Done under CallNext, Confirm, Complete and restart.
C12_Monotonic ==
    [][\A s \in Services : \A i \in DOMAIN file.tickets[s] :
          LET before == file.tickets[s][i].status
              after == file'.tickets[s][i].status
          IN  \/ Rank(after) >= Rank(before)
              \/ /\ last'.op = "restart"
                 /\ before = "assigned"
                 /\ after = "waiting"]_vars

(* C13 *)
\* The program while the process keeps running: every request, no restart.
NextNoRestart ==
    \/ \E s \in Services : IssueTicket(s)
    \/ \E s \in Services : \E d \in DeskInputs(s) : CallNext(s, d)
    \/ \E s \in Services : \E d \in DeskInputs(s), c \in Cookies : ClaimOrResume(s, d, c)
    \/ \E s \in Services : \E d \in DeskInputs(s), t \in TicketIds : Confirm(s, d, t)
    \/ \E s \in Services : \E d \in DeskInputs(s), t \in TicketIds : Complete(s, d, t)

SpecNoRestart == Init /\ [][NextNoRestart]_vars

\* The desks of service s that hold ticket t in their assigned or serving slot.
Holders(s, t) ==
    {k \in DeskKeys : k[1] = s /\ (assigned[k] = t \/ serving[k] = t)}

\* C13: No orphaned ticket.  While the process runs without a restart, every
\* ticket stored as Assigned or Serving is in the assigned or serving slot of
\* exactly one desk of its service, also after a desk that already holds a
\* ticket issues CallNext.
C13_NoOrphan ==
    \A s \in Services : \A i \in DOMAIN file.tickets[s] :
        file.tickets[s][i].status \in {"assigned", "serving"}
            => Cardinality(Holders(s, file.tickets[s][i].id)) = 1

(* C14 *)
\* The three desk operations as requested by a caller whose session cookie is
\* c: the handlers take service, desk and ticket from the query and never read
\* the cookie, so the caller's cookie does not enter the step.
CallNextBy(c, s, d) == CallNext(s, d)
ConfirmBy(c, s, d, t) == Confirm(s, d, t)
CompleteBy(c, s, d, t) == Complete(s, d, t)

\* A CallNext, Confirm or Complete step on desk d of service s by a caller
\* whose cookie is c.
DeskOperationBy(c, s, d) ==
    /\ last'.op \in {"next", "confirm", "done"}
    /\ last'.service = s /\ last'.desk = d
    /\ \/ CallNextBy(c, s, d)
       \/ \E t \in TicketIds : ConfirmBy(c, s, d, t)
       \/ \E t \in TicketIds : CompleteBy(c, s, d, t)

\* C14: Session token gates desk operations.  A CallNext, Confirm or Complete
\* on desk (s, d) by a caller who presents no token, or a token that is not
\* bound to (s, d), leaves the desk's assigned and serving slots and the
\* service's stored tickets as they were.
C14_TokenGatesDesk ==
    [][\A s \in Services : \A d \in DeskInputs(s), c \in Cookies :
          (DeskOperationBy(c, s, d) /\ ~IsOwner(s, d, c))
              => /\ assigned'[<<s, d>>] = assigned[<<s, d>>]
                 /\ serving'[<<s, d>>] = serving[<<s, d>>]
                 /\ file'.tickets[s] = file.tickets[s]]_vars

(* C15 *)
\* C15: NotFound.  A ClaimOrResume, CallNext, Confirm or Complete that names a
\* desk which is not configured for the service (the service has no desks, or
\* none with that id) answers NotFound and leaves the store and the in-memory
\* state as they were; CallNext for such a desk pops no ticket.
C15_NotFound ==
    [][\A s \in Services : \A d \in DeskInputs(s) :
          (/\ d \notin ConfiguredDesks(s)
           /\ last'.op \in {"clerk", "next", "confirm", "done"}
           /\ last'.service = s /\ last'.desk = d)
              => /\ last'.status = "notfound"
                 /\ UNCHANGED <<file, memory>>]_vars

\* The part of C15 about the FIFO alone: a CallNext that names a desk which is
\* not configured pops no ticket.
C15_UnknownDeskPopsNothing ==
    [][\A s \in Services : \A d \in DeskInputs(s) :
          (d \notin ConfiguredDesks(s) /\ last'.op = "next"
           /\ last'.service = s /\ last'.desk = d)
              => queues'[s] = queues[s]]_vars

(* C16 *)
\* What load_data returns when the file cannot be parsed: a save_data that
\* fails after open(DATA_FILE, "w") has truncated the file leaves such a file.
UnreadableStore ==
    [desks |-> [s \in Services |-> <<>>],
     tickets |-> [s \in Services |-> <<>>],
     sessions |-> <<>>]

\* The file after a save_data that raised: open() failed and the file kept its
\* content, or the dump failed after the truncation.
WriteOutcomes == {"kept", "truncated"}
FailedWrite(before, outcome) ==
    IF outcome = "kept" THEN before ELSE UnreadableStore

\* IssueTicket calls so far, those whose write failed included.
IssuedCalls == issuedCount["deposit"] + issuedCount["debit"]

\* GET /ticket whose save_data raises: generate_ticket has already advanced the
\* counter and appended the ticket to the FIFO; the exception leaves the
\* handler before the broadcast.
IssueTicketWriteFails(s, outcome) ==
    /\ IssuedCalls < MaxIssued
    /\ LET q0 == IF ticket_counter[s] = Absent THEN <<>> ELSE queues[s]
           n == CounterOrZero(ticket_counter[s]) + 1
           ticket == FormatTicket(s, n)
       IN /\ ticket_counter' = [ticket_counter EXCEPT ![s] = n]
          /\ queues' = [queues EXCEPT ![s] = Append(q0, ticket)]
          /\ file' = FailedWrite(file, outcome)
          /\ last' = Response("ticket", s, NoDesk, "failed")
          /\ issuedCount' = [issuedCount EXCEPT ![s] = @ + 1]
    /\ UNCHANGED <<assigned, serving>>

\* GET /next on the path that writes, with its n-th save_data raising: the
\* ticket is popped and the slot filled before the first save (set_assigned's);
\* the second save is the handler's own.
CallNextWriteFails(s, d, n, outcome) ==
    /\ ~BusyGuard(WaitingIds(file, s), assigned, s)
    /\ queues[s] # <<>>
    /\ LET ticket == QueueFront(queues[s])
           w1 == set_assigned_file(file, s, d, ticket)
       IN /\ queues' = [queues EXCEPT ![s] = QueueRest(@)]
          /\ assigned' = [assigned EXCEPT ![<<s, d>>] = ticket]
          /\ file' = IF n = 1 THEN FailedWrite(file, outcome)
                     ELSE FailedWrite(w1, outcome)
          /\ last' = Response("next", s, d, "failed")
    /\ UNCHANGED <<ticket_counter, serving, issuedCount>>

\* The running process with store writes that may fail.
NextIO ==
    \/ \E s \in Services : IssuedCalls < MaxIssued /\ IssueTicket(s)
    \/ \E s \in Services : \E d \in DeskInputs(s) : CallNext(s, d)
    \/ \E s \in Services : \E d \in DeskInputs(s), c \in Cookies : ClaimOrResume(s, d, c)
    \/ \E s \in Services : \E d \in DeskInputs(s), t \in TicketIds : Confirm(s, d, t)
    \/ \E s \in Services : \E d \in DeskInputs(s), t \in TicketIds : Complete(s, d, t)
    \/ \E s \in Services, o \in WriteOutcomes : IssueTicketWriteFails(s, o)
    \/ \E s \in Services : \E d \in DeskInputs(s), n \in {1, 2}, o \in WriteOutcomes :
           CallNextWriteFails(s, d, n, o)

SpecIO == Init /\ [][NextIO]_vars

\* C16: All-or-nothing on write failure.  An IssueTicket or CallNext whose store
\* write fails applies nothing: the counter, the FIFO, the assigned slots and
\* the store are as before the call.
C16_AllOrNothing ==
    [][(last'.status = "failed" /\ last'.op \in {"ticket", "next"})
          => UNCHANGED <<file, memory>>]_vars

(* C17 *)
\* C17: CallNext persists the binding.  Right after CallNext(s, d) has answered
\* ok with ticket t for a configured desk d, the store shows t as Assigned and
\* desk d's current_ticket as t, and the in-memory assigned slot (s, d) is t.
C17_CallNextPersists ==
    (/\ last.op = "next" /\ last.status = "ok"
     /\ Configured(<<last.service, last.desk>>))
        => /\ StoredStatus(last.service, last.rticket) = "assigned"
           /\ file.desks[last.service][last.desk].current_ticket = last.rticket
           /\ assigned[<<last.service, last.desk>>] = last.rticket

(* C18 *)
\* Ticket t of service s as the store records it after the step.
StoredAfter(s, t) ==
    {file'.tickets[s][i] : i \in {j \in DOMAIN file'.tickets[s] : file'.tickets[s][j].id = t}}

\* What a successful Confirm(s, d, t) does to desk (s, d) and ticket t.
ConfirmBinds(s, d, t) ==
    /\ assigned'[<<s, d>>] = NoTicket
    /\ serving'[<<s, d>>] = t
    /\ StoredAfter(s, t) = {[id |-> t, status |-> "serving", desk |-> d]}
    /\ d \in DOMAIN file'.desks[s]
    /\ file'.desks[s][d].current_ticket = t

\* What a Confirm(s, d, t) leaves alone: the other tickets, desks and slots,
\* the sessions, the FIFOs and the counters.
ConfirmFrame(s, d, t) ==
    /\ \A k \in DeskKeys : k # <<s, d>> =>
           assigned'[k] = assigned[k] /\ serving'[k] = serving[k]
    /\ queues' = queues /\ ticket_counter' = ticket_counter
    /\ file'.sessions = file.sessions
    /\ \A s2 \in Services :
          /\ DOMAIN file'.tickets[s2] = DOMAIN file.tickets[s2]
          /\ \A i \in DOMAIN file.tickets[s2] :
                (s2 # s \/ file.tickets[s2][i].id # t)
                    => file'.tickets[s2][i] = file.tickets[s2][i]
          /\ DOMAIN file'.desks[s2] = DOMAIN file.desks[s2]
          /\ \A d2 \in DOMAIN file.desks[s2] :
                (s2 # s \/ d2 # d) => file'.desks[s2][d2] = file.desks[s2][d2]

ConfirmSucceeded == last'.op = "confirm" /\ last'.status = "ok"

\* C18: Confirm effect.  After a successful Confirm(s, d, t) the assigned slot
\* of desk d is empty and its serving slot is t, the store shows t as Serving
\* at desk d and desk d's current_ticket as t, and every other ticket, desk,
\* session and FIFO is as before.
C18_ConfirmEffect ==
    [][ConfirmSucceeded =>
          /\ ConfirmBinds(last'.service, last'.desk, last'.rticket)
          /\ ConfirmFrame(last'.service, last'.desk, last'.rticket)]_vars

\* The same for the desks the store knows.
C18_ConfirmEffectConfigured ==
    [][(ConfirmSucceeded /\ Configured(<<last'.service, last'.desk>>)) =>
          /\ ConfirmBinds(last'.service, last'.desk, last'.rticket)
          /\ ConfirmFrame(last'.service, last'.desk, last'.rticket)]_vars

(* C19 *)
\* The event the last request published and the state its listeners can read
\* while the broadcast is awaited: the handler's writes are all in place.
PublishedIssued ==
    LET s == last.service
    IN /\ last.event = [type |-> "issued", service |-> s, ticket |-> last.rticket,
                        queue_length |-> Len(queues[s])]
       /\ StoredStatus(s, last.rticket) = "waiting"
       /\ queues[s] # <<>> /\ queues[s][Len(queues[s])] = last.rticket

PublishedCalled ==
    LET s == last.service
    IN /\ last.event = [type |-> "called", service |-> s, ticket |-> last.rticket,
                        desk |-> last.desk]
       /\ StoredStatus(s, last.rticket) = "assigned"
       /\ assigned[<<s, last.desk>>] = last.rticket
       /\ ~InSeq(last.rticket, queues[s])

PublishedEmpty ==
    /\ last.event = [type |-> "empty", service |-> last.service]
    /\ queues[last.service] = <<>>

PublishedServing ==
    LET s == last.service
    IN /\ last.event = [type |-> "serving", service |-> s, ticket |-> last.rticket,
                        desk |-> last.desk]
       /\ StoredStatus(s, last.rticket) = "serving"
       /\ serving[<<s, last.desk>>] = last.rticket
       /\ assigned[<<s, last.desk>>] = NoTicket

PublishedDone ==
    LET s == last.service
    IN /\ last.event = [type |-> "done", service |-> s, ticket |-> last.rticket,
                        desk |-> last.desk]
       /\ StoredStatus(s, last.rticket) = "done"
       /\ serving[<<s, last.desk>>] = NoTicket

ServingAt(k, t) ==
    t # NoTicket /\ serving[k] = t /\ StoredStatus(k[1], t) = "serving"

\* After the step ticket t is still Serving at desk k and not in the FIFO.
StillServingAt(k, t) ==
    /\ \E r \in StoredAfter(k[1], t) : r.status = "serving"
    /\ k[2] \in DOMAIN file'.desks[k[1]]
    /\ file'.desks[k[1]][k[2]].current_ticket = t
    /\ serving'[k] = t
    /\ ~InSeq(t, queues'[k[1]])

\* A restart keeps every ticket that is Serving at one of the desks in keys.
RestartKeepsServing(keys) ==
    last'.op = "restart" =>
        \A k \in keys : ServingAt(k, serving[k]) => StillServingAt(k, serving[k])

\* Right after a restart, Complete for the ticket in the serving slot of one of
\* the desks in keys succeeds and stores the ticket as done.
CompleteAfterRestart(keys) ==
    (last.op = "restart" /\ last'.op = "done") =>
        \A k \in keys :
            (ServingAt(k, serving[k]) /\ Complete(k[1], k[2], serving[k]))
                => /\ last'.status = "ok"
                   /\ \E r \in StoredAfter(k[1], serving[k]) : r.status = "done"

\* C20: Serving survives restart.  A ticket that is Serving at desk d when the
\* process restarts is Serving at d afterwards (stored status, the desk's
\* current_ticket and the in-memory serving slot), is not in the waiting FIFO,
\* and a Complete for it then succeeds and marks it Done.
C20_ServingSurvivesRestart ==
    [][RestartKeepsServing(DeskKeys) /\ CompleteAfterRestart(DeskKeys)]_vars

\* The same for the desks the store knows.
C20_ServingSurvivesRestartConfigured ==
    [][/\ RestartKeepsServing({k \in DeskKeys : Configured(k)})
       /\ CompleteAfterRestart({k \in DeskKeys : Configured(k)})]_vars

(* C21 *)
\* A desk following the protocol: CallNext only while both its slots are empty,
\* Confirm of the ticket in its assigned slot, Complete of the ticket in its
\* serving slot.
DeskIdle(k) == assigned[k] = NoTicket /\ serving[k] = NoTicket
ProtocolCallNext(s, d) == DeskIdle(<<s, d>>) /\ CallNext(s, d)
ProtocolConfirm(s, d) ==
    assigned[<<s, d>>] # NoTicket /\ Confirm(s, d, assigned[<<s, d>>])
ProtocolComplete(s, d) ==
    serving[<<s, d>>] # NoTicket /\ Complete(s, d, serving[<<s, d>>])

\* Tickets are issued, the desks of each service follow the protocol, the
\* process may restart; no store write fails.
NextProtocol ==
    \/ \E s \in Services : IssueTicket(s)
    \/ \E s \in Services : \E d \in ConfiguredDesks(s) : ProtocolCallNext(s, d)
    \/ \E s \in Services : \E d \in ConfiguredDesks(s) : ProtocolConfirm(s, d)
    \/ \E s \in Services : \E d \in ConfiguredDesks(s) : ProtocolComplete(s, d)
    \/ Restart

\* The desk that is taken to be active: it keeps calling for tickets.
ActiveDesk == 1

\* Weak fairness: every desk that holds a ticket goes on to confirm and to
\* complete it, and the active desk calls when it is idle.
Fairness ==
    /\ \A d \in ConfiguredDesks("deposit") :
          /\ WF_vars(ProtocolConfirm("deposit", d))
          /\ WF_vars(ProtocolComplete("deposit", d))
    /\ WF_vars(ProtocolCallNext("deposit", ActiveDesk))

SpecProtocol == Init /\ [][NextProtocol]_vars /\ Fairness

\* Restarts are finite: from some point on no step is a restart.
FiniteRestarts == <>[][last'.op # "restart"]_vars

\* C21: Progress.  With no failing write, finitely many restarts and the desks
\* of the service following the protocol under weak fairness, at least one of
\* them active, every ticket issued for the service eventually is Done, and
\* while a ticket is Waiting the calls are not answered busy or empty forever:
\* some CallNext is answered ok.
C21_Progress ==
    FiniteRestarts =>
        /\ \A t \in TicketIds :
              (StoredStatus("deposit", t) # "") ~> (StoredStatus("deposit", t) = "done")
        /\ (WaitingSet("deposit") # {}) ~> (last.op = "next" /\ last.status = "ok")

\* C21 witness: after a restart every ticket that can be issued has been issued
\* for the service and is Done.
C21_Witness ==
    /\ Len(file.tickets["deposit"]) = MaxIssued
    /\ \A i \in DOMAIN file.tickets["deposit"] : file.tickets["deposit"][i].status = "done"
    /\ last.op = "done"
    /\ assigned[<<"deposit", 1>>] = NoTicket /\ assigned[<<"deposit", 2>>] = NoTicket

====
